---------------------------- MODULE Spec2Model ----------------------------
(***************************************************************************)
(* Model of the task routing service: the routing decision function        *)
(* routeTask (backend/src/router.ts), the request handlers POST /api/tasks  *)
(* and POST /api/transcribe-and-route (backend/src/server.ts) and POST      *)
(* /api/upload (backend/src/upload.ts), over the tables of schema.sql.      *)
(***************************************************************************)
EXTENDS Integers, Sequences, FiniteSets, TLC

VARIABLES
    call,               \* arguments of the current direct routeTask call
    ret,                \* what that call returned (NoRet before it returns)
    tasks,              \* table tasks
    routing_decisions,  \* table routing_decisions
    model_runs,         \* table model_runs
    reqs,               \* POST /api/tasks requests: position, body, locals, response
    uploaded_files,     \* table uploaded_files
    transcripts,        \* table transcripts
    storage,            \* the objects of the storage bucket airr-raw-files
    env,                \* process.env: whether N8N_FILE_WEBHOOK_URL is set
    notifications,      \* the webhook calls that reached n8n, in the order sent
    ups,                \* POST /api/upload requests
    trs                 \* POST /api/transcribe-and-route requests

\* what the upload and transcribe-and-route handlers work on
ingestVars == <<uploaded_files, transcripts, storage, env, notifications, ups, trs>>

vars == <<call, ret, tasks, routing_decisions, model_runs, reqs, ingestVars>>

----------------------------------------------------------------------------
(* Bounds of the model *)

\* budget ceilings of direct calls range over -MaxCeiling .. MaxCeiling
MaxCeiling == 42
\* number of create-task requests, all of which may be in flight together
MaxReq == 2
\* number of upload requests
MaxUploads == 2
\* number of transcribe-and-route requests (deliveries of the resume trigger)
MaxTriggers == 2

----------------------------------------------------------------------------
(* router.ts *)

TaskType == {"summary", "classification", "extraction"}
SlaTier == {"low_latency", "low_cost", "high_quality"}
ModelName == {"gpt_4_1", "gpt_4_1_mini", "rules_engine"}

MODEL_PROFILE ==
    [gpt_4_1      |-> [costPerTask |-> 40, latencyMs |-> 1800],
     gpt_4_1_mini |-> [costPerTask |-> 10, latencyMs |-> 600],
     rules_engine |-> [costPerTask |-> 1,  latencyMs |-> 100]]

\* `${n}` of an integer: its decimal digits, with a leading "-" when negative
DigitChar == <<"0", "1", "2", "3", "4", "5", "6", "7", "8", "9">>

RECURSIVE Digits(_)
Digits(n) ==
    IF n < 10 THEN <<DigitChar[n + 1]>>
    ELSE Append(Digits(n \div 10), DigitChar[(n % 10) + 1])

NumberToString(n) == IF n < 0 THEN <<"-">> \o Digits(-n) ELSE Digits(n)

\* faulty variant: the two LLM tiers are swapped
preferred_Swapped(sla) ==
    IF sla = "high_quality" THEN "gpt_4_1_mini"
    ELSE IF sla = "low_latency" THEN "gpt_4_1"
    ELSE "rules_engine"

\* the candidate of an SLA tier
preferred(sla) ==
    IF sla = "high_quality" THEN "gpt_4_1"
    ELSE IF sla = "low_latency" THEN "gpt_4_1_mini"
    ELSE "rules_engine"

\* faulty variant: the second step of the fallback is missing
fallback_OneStep(candidate, maxCostCents) ==
    IF MODEL_PROFILE[candidate].costPerTask > maxCostCents
    THEN IF candidate = "gpt_4_1" THEN "gpt_4_1_mini" ELSE candidate
    ELSE candidate

\* faulty variant: >= in place of > in both comparisons
fallback_Strict(candidate, maxCostCents) ==
    IF MODEL_PROFILE[candidate].costPerTask >= maxCostCents
    THEN LET c1 == IF candidate = "gpt_4_1" THEN "gpt_4_1_mini" ELSE candidate
         IN  IF MODEL_PROFILE[c1].costPerTask >= maxCostCents
             THEN "rules_engine" ELSE c1
    ELSE candidate

\* faulty variant: an unaffordable request falls through to the most capable backend
fallback_Upward(candidate, maxCostCents) ==
    IF MODEL_PROFILE[candidate].costPerTask > maxCostCents
    THEN LET c1 == IF candidate = "gpt_4_1" THEN "gpt_4_1_mini" ELSE candidate
         IN  IF MODEL_PROFILE[c1].costPerTask > maxCostCents
             THEN "gpt_4_1" ELSE c1
    ELSE candidate

\* faulty variant: the second comparison is written < in place of >
fallback_SecondTestInverted(candidate, maxCostCents) ==
    IF MODEL_PROFILE[candidate].costPerTask > maxCostCents
    THEN LET c1 == IF candidate = "gpt_4_1" THEN "gpt_4_1_mini" ELSE candidate
         IN  IF MODEL_PROFILE[c1].costPerTask < maxCostCents
             THEN "rules_engine" ELSE c1
    ELSE candidate

\* the budget fallback: chosen, from the candidate and the ceiling
fallback(candidate, maxCostCents) ==
    IF MODEL_PROFILE[candidate].costPerTask > maxCostCents
    THEN LET c1 == IF candidate = "gpt_4_1" THEN "gpt_4_1_mini" ELSE candidate
         IN  IF MODEL_PROFILE[c1].costPerTask > maxCostCents
             THEN "rules_engine" ELSE c1
    ELSE candidate

\* the template literal of the reason, as the sequence of its pieces
reasonText(chosen, sla, taskType, maxCostCents) ==
    <<"Selected ", chosen, " based on SLA=", sla, ", taskType=", taskType,
      ", maxCost=">> \o NumberToString(maxCostCents) \o <<"c">>

\* faulty variant: classification tasks are always sent to the rules engine
routeTask_ByTaskType(input) ==
    LET candidate == preferred(input.sla)
        chosen == IF input.taskType = "classification" THEN "rules_engine"
                  ELSE fallback(candidate, input.maxCostCents)
        profile == MODEL_PROFILE[chosen]
    IN  [model              |-> chosen,
         estimatedCostCents |-> profile.costPerTask,
         estimatedLatencyMs |-> profile.latencyMs,
         reason |-> reasonText(chosen, input.sla, input.taskType, input.maxCostCents)]

\* faulty variant: the reason names the candidate, not the chosen backend
routeTask_ReasonNamesCandidate(input) ==
    LET candidate == preferred(input.sla)
        chosen == fallback(candidate, input.maxCostCents)
        profile == MODEL_PROFILE[chosen]
    IN  [model              |-> chosen,
         estimatedCostCents |-> profile.costPerTask,
         estimatedLatencyMs |-> profile.latencyMs,
         reason |-> reasonText(candidate, input.sla, input.taskType, input.maxCostCents)]

\* faulty variant: hidden state, the router degrades once a decision has been stored
routeTask_Stateful(input) ==
    LET candidate == preferred(input.sla)
        chosen == IF routing_decisions # {} THEN "rules_engine"
                  ELSE fallback(candidate, input.maxCostCents)
        profile == MODEL_PROFILE[chosen]
    IN  [model              |-> chosen,
         estimatedCostCents |-> profile.costPerTask,
         estimatedLatencyMs |-> profile.latencyMs,
         reason |-> reasonText(chosen, input.sla, input.taskType, input.maxCostCents)]

\* faulty variant: the profile is looked up before the fallback, for the candidate
routeTask_CandidateProfile(input) ==
    LET candidate == preferred(input.sla)
        chosen == fallback(candidate, input.maxCostCents)
        profile == MODEL_PROFILE[candidate]
    IN  [model              |-> chosen,
         estimatedCostCents |-> profile.costPerTask,
         estimatedLatencyMs |-> profile.latencyMs,
         reason |-> reasonText(chosen, input.sla, input.taskType, input.maxCostCents)]

routeTask(input) ==
    LET candidate == preferred(input.sla)
        chosen == fallback(candidate, input.maxCostCents)
        profile == MODEL_PROFILE[chosen]
    IN  [model              |-> chosen,
         estimatedCostCents |-> profile.costPerTask,
         estimatedLatencyMs |-> profile.latencyMs,
         reason |-> reasonText(chosen, input.sla, input.taskType, input.maxCostCents)]

----------------------------------------------------------------------------
(* Direct calls of routeTask *)

\* a string that is no SlaTier: the type is erased at run time
UnknownSla == "premium"

Ceilings == (0 - MaxCeiling) .. MaxCeiling

RouteInputs ==
    [taskType : TaskType, sla : SlaTier \cup {UnknownSla}, maxCostCents : Ceilings]

NoRet == [kind |-> "none"]

\* routeTask(call) runs to its return statement; no path of it throws
Invoke ==
    /\ ret = NoRet
    /\ ret' = [kind |-> "return", value |-> routeTask(call)]
    /\ UNCHANGED <<call, tasks, routing_decisions, model_runs, reqs, ingestVars>>

\* the caller makes its next call
NextCall ==
    /\ ret # NoRet
    /\ call' \in RouteInputs
    /\ ret' = NoRet
    /\ UNCHANGED <<tasks, routing_decisions, model_runs, reqs, ingestVars>>


----------------------------------------------------------------------------
(* schema.sql: the tables, and what an insert into tasks accepts *)

\* SQL null, and JavaScript undefined/null in a request body
NULL == "NULL"

\* a new row of tasks as the insert builds it; status takes its default
TaskRow(id, body) ==
    [id             |-> id,
     task_type      |-> body.taskType,
     sla            |-> body.sla,
     input_text     |-> body.inputText,
     max_cost_cents |-> body.maxCostCents,
     status         |-> "pending",
     transcript_id  |-> body.transcriptId,
     error_message  |-> NULL]

\* the column constraints of tasks: the two enums, and the two not-null columns
TaskRowAccepted(row) ==
    /\ row.task_type \in TaskType
    /\ row.sla \in SlaTier
    /\ row.input_text # NULL
    /\ row.max_cost_cents \in Int

\* the constraints of routing_decisions: task_id references tasks(id),
\* chosen_model is a model_name and not null; no column is unique but id
DecisionRowAccepted(row) ==
    /\ \E t \in tasks : t.id = row.task_id
    /\ row.chosen_model \in ModelName

DecisionRow(id, routing) ==
    [id                   |-> id,
     task_id              |-> id,
     chosen_model         |-> routing.model,
     reason               |-> routing.reason,
     estimated_cost_cents |-> routing.estimatedCostCents,
     estimated_latency_ms |-> routing.estimatedLatencyMs]

\* faulty variant: the measured latency and cost are stored in each other's column
RunRow_SwappedMetrics(id, routing, latency) ==
    [id             |-> id,
     task_id        |-> id,
     model          |-> routing.model,
     token_input    |-> 500,
     token_output   |-> 200,
     latency_ms     |-> routing.estimatedCostCents,
     cost_cents     |-> latency,
     success        |-> TRUE,
     failure_reason |-> NULL]

\* faulty variant: the cost is stored in whole dollars
RunRow_CostInDollars(id, routing, latency) ==
    [id             |-> id,
     task_id        |-> id,
     model          |-> routing.model,
     token_input    |-> 500,
     token_output   |-> 200,
     latency_ms     |-> latency,
     cost_cents     |-> routing.estimatedCostCents \div 100,
     success        |-> TRUE,
     failure_reason |-> NULL]

RunRow(id, routing, latency) ==
    [id             |-> id,
     task_id        |-> id,
     model          |-> routing.model,
     token_input    |-> 500,
     token_output   |-> 200,
     latency_ms     |-> latency,
     cost_cents     |-> routing.estimatedCostCents,
     success        |-> TRUE,
     failure_reason |-> NULL]

----------------------------------------------------------------------------
(* server.ts: POST /api/tasks *)

Body(taskType, sla, inputText, maxCostCents) ==
    [taskType |-> taskType, sla |-> sla, inputText |-> inputText,
     maxCostCents |-> maxCostCents, transcriptId |-> NULL]

\* the request bodies the model sends; the handler validates nothing itself
Bodies ==
    { Body("summary", "low_cost", "text", 5),
      Body("summary", "high_quality", "text", 10),
      Body("classification", "high_quality", "text", 40),
      Body("extraction", "low_latency", "text", 0),
      Body("classification", "low_latency", "text", 0 - 1),
      Body("extraction", "high_quality", "text", 100),
      Body("summary", UnknownSla, "text", 5),
      Body("translation", "low_cost", "text", 5),
      Body("summary", "low_cost", NULL, 5) }

\* Math.round(Math.random() * 200) lies in 0 .. MaxJitter; the model draws its ends
MaxJitter == 200
Jitters == {0, MaxJitter}

ReqIds == 1 .. MaxReq

NoBody == [none |-> TRUE]
NoRouting == [none |-> TRUE]
NoRes == [status |-> 0]

\* dbErrors: the database calls of the request that answered with an error
IdleReq ==
    [pc |-> "idle", body |-> NoBody, routing |-> NoRouting, res |-> NoRes, dbErrors |-> {}]

\* catch (e): res.status(500).json({ error: e.message })
Fail(r, message) ==
    [r EXCEPT !.pc = "done", !.res = [status |-> 500, error |-> message],
              !.dbErrors = @ \cup {message}]

\* the request arrives and the handler inserts the task row; a database error
\* is thrown to the catch block. The row's uuid is modelled by the request's
\* number, and requests are numbered in their order of arrival.
CreateTask_InsertTask(i) ==
    /\ reqs[i].pc = "idle"
    /\ \A j \in 1 .. (i - 1) : reqs[j].pc # "idle"
    /\ \E body \in Bodies, dbOk \in BOOLEAN :
         LET row == TaskRow(i, body)
         IN  IF dbOk /\ TaskRowAccepted(row)
             THEN /\ tasks' = tasks \cup {row}
                  /\ reqs' = [reqs EXCEPT ![i] = [@ EXCEPT !.pc = "route", !.body = body]]
             ELSE /\ tasks' = tasks
                  /\ reqs' = [reqs EXCEPT ![i] = Fail([@ EXCEPT !.body = body], "taskErr")]
    /\ UNCHANGED <<call, ret, routing_decisions, model_runs, ingestVars>>

\* faulty variant: a failed decision insert is only logged, as the failed
\* model_runs insert is, and the handler goes on
CreateTask_Route_LogsOnly(i) ==
    /\ reqs[i].pc = "route"
    /\ LET b == reqs[i].body
           routing == routeTask([taskType |-> b.taskType, sla |-> b.sla,
                                 maxCostCents |-> b.maxCostCents])
       IN  \E dbOk \in BOOLEAN :
             /\ routing_decisions' = IF dbOk THEN routing_decisions \cup {DecisionRow(i, routing)}
                                     ELSE routing_decisions
             /\ reqs' = [reqs EXCEPT ![i] = [@ EXCEPT !.pc = "run", !.routing = routing,
                            !.dbErrors = IF dbOk THEN @ ELSE @ \cup {"decErr"}]]
    /\ UNCHANGED <<call, ret, tasks, model_runs, ingestVars>>

\* faulty variant: the handler also marks the task running once routed, and the
\* update has no .eq('id', task.id)
CreateTask_Route_MarksAllRunning(i) ==
    /\ reqs[i].pc = "route"
    /\ LET b == reqs[i].body
           routing == routeTask([taskType |-> b.taskType, sla |-> b.sla,
                                 maxCostCents |-> b.maxCostCents])
       IN  \E dbOk \in BOOLEAN :
             IF dbOk
             THEN /\ routing_decisions' = routing_decisions \cup {DecisionRow(i, routing)}
                  /\ tasks' = {[t EXCEPT !.status = "running"] : t \in tasks}
                  /\ reqs' = [reqs EXCEPT ![i] = [@ EXCEPT !.pc = "run", !.routing = routing]]
             ELSE /\ routing_decisions' = routing_decisions
                  /\ tasks' = tasks
                  /\ reqs' = [reqs EXCEPT ![i] = Fail([@ EXCEPT !.routing = routing], "decErr")]
    /\ UNCHANGED <<call, ret, model_runs, ingestVars>>

\* routeTask, then the insert of the decision row; a database error is thrown
CreateTask_Route(i) ==
    /\ reqs[i].pc = "route"
    /\ LET b == reqs[i].body
           routing == routeTask([taskType |-> b.taskType, sla |-> b.sla,
                                 maxCostCents |-> b.maxCostCents])
       IN  \E dbOk \in BOOLEAN :
             IF dbOk /\ DecisionRowAccepted(DecisionRow(i, routing))
             THEN /\ routing_decisions' = routing_decisions \cup {DecisionRow(i, routing)}
                  /\ reqs' = [reqs EXCEPT ![i] = [@ EXCEPT !.pc = "run", !.routing = routing]]
             ELSE /\ routing_decisions' = routing_decisions
                  /\ reqs' = [reqs EXCEPT ![i] = Fail([@ EXCEPT !.routing = routing], "decErr")]
    /\ UNCHANGED <<call, ret, tasks, model_runs, ingestVars>>

\* the simulated execution and the insert of its model_runs row; a database
\* error is only logged (the throw is commented out) and the handler goes on
CreateTask_InsertRun(i) ==
    /\ reqs[i].pc = "run"
    /\ \E jitter \in Jitters, dbOk \in BOOLEAN :
         LET routing == reqs[i].routing
             latency == routing.estimatedLatencyMs + jitter
         IN  /\ model_runs' = IF dbOk THEN model_runs \cup {RunRow(i, routing, latency)}
                              ELSE model_runs
             /\ reqs' = [reqs EXCEPT ![i] = [@ EXCEPT !.pc = "update",
                            !.dbErrors = IF dbOk THEN @ ELSE @ \cup {"runErr"}]]
    /\ UNCHANGED <<call, ret, tasks, routing_decisions, ingestVars>>

\* update tasks set status = 'completed' where id = task.id: its result is not
\* looked at; then res.json({ task, decision, routing }) with the rows as inserted
CreateTask_Complete(i) ==
    /\ reqs[i].pc = "update"
    /\ \E dbOk \in BOOLEAN :
         /\ tasks' = IF dbOk
                     THEN {IF t.id = i THEN [t EXCEPT !.status = "completed"] ELSE t : t \in tasks}
                     ELSE tasks
         /\ reqs' = [reqs EXCEPT ![i] = [@ EXCEPT !.pc = "done",
                        !.dbErrors = IF dbOk THEN @ ELSE @ \cup {"updateErr"},
                        !.res = [status   |-> 200,
                                 task     |-> TaskRow(i, reqs[i].body),
                                 decision |-> DecisionRow(i, reqs[i].routing),
                                 routing  |-> reqs[i].routing]]]
    /\ UNCHANGED <<call, ret, routing_decisions, model_runs, ingestVars>>

----------------------------------------------------------------------------
(* upload.ts: POST /api/upload *)

UploadIds == 1 .. MaxUploads

\* the uuids the database and randomUUID() hand out, by the number of the
\* upload request they are made for
FileUuid(u) == <<"f1", "f2", "f3">>[u]
TranscriptUuid(u) == <<"t1", "t2", "t3">>[u]
StoragePath(u) == <<"raw/u1.txt", "raw/u2.txt", "raw/u3.txt">>[u]
FileName(u) == <<"call1.txt", "call2.txt", "call3.txt">>[u]

\* the bytes of an uploaded file, read as text: some text, nothing, only whitespace
FileContents == {"call notes", "", "  "}

\* req.file of an upload request; NoFile when the form carries no file
NoFile == [none |-> TRUE]

UploadFiles ==
    {NoFile} \cup {[content |-> c, mimetype |-> "text/plain"] : c \in FileContents}

FileRow(u, file) ==
    [id            |-> FileUuid(u),
     file_name     |-> FileName(u),
     file_type     |-> file.mimetype,
     storage_path  |-> StoragePath(u),
     status        |-> "uploaded",
     error_message |-> NULL]

TranscriptRow(u) ==
    [id               |-> TranscriptUuid(u),
     file_id          |-> FileUuid(u),
     text             |-> NULL,
     language         |-> NULL,
     duration_seconds |-> NULL,
     status           |-> "processing",
     error_message    |-> NULL]

IdleUpload == [pc |-> "idle", file |-> NoFile, res |-> NoRes, dbErrors |-> {}]

\* faulty variant: the error of the storage upload is not thrown
Upload_Store_IgnoresStorageErr(u) ==
    /\ ups[u].pc = "idle"
    /\ \A v \in 1 .. (u - 1) : ups[v].pc # "idle"
    /\ \E file \in UploadFiles, ok \in BOOLEAN :
         IF file = NoFile
         THEN /\ ups' = [ups EXCEPT ![u] = [@ EXCEPT !.pc = "done",
                           !.res = [status |-> 400, error |-> "No file uploaded"]]]
              /\ storage' = storage
         ELSE /\ ups' = [ups EXCEPT ![u] = [@ EXCEPT !.pc = "insert_file", !.file = file,
                           !.dbErrors = IF ok THEN @ ELSE @ \cup {"storageErr"}]]
              /\ storage' = IF ok
                            THEN storage \cup {[path |-> StoragePath(u), content |-> file.content]}
                            ELSE storage
    /\ UNCHANGED <<call, ret, tasks, routing_decisions, model_runs, reqs,
                   uploaded_files, transcripts, env, notifications, trs>>

\* the request arrives: 400 without a file, else the bytes go to the bucket
Upload_Store(u) ==
    /\ ups[u].pc = "idle"
    /\ \A v \in 1 .. (u - 1) : ups[v].pc # "idle"
    /\ \E file \in UploadFiles, ok \in BOOLEAN :
         IF file = NoFile
         THEN /\ ups' = [ups EXCEPT ![u] = [@ EXCEPT !.pc = "done",
                           !.res = [status |-> 400, error |-> "No file uploaded"]]]
              /\ storage' = storage
         ELSE IF ok
         THEN /\ ups' = [ups EXCEPT ![u] = [@ EXCEPT !.pc = "insert_file", !.file = file]]
              /\ storage' = storage \cup {[path |-> StoragePath(u), content |-> file.content]}
         ELSE /\ ups' = [ups EXCEPT ![u] = Fail([@ EXCEPT !.file = file], "storageErr")]
              /\ storage' = storage
    /\ UNCHANGED <<call, ret, tasks, routing_decisions, model_runs, reqs,
                   uploaded_files, transcripts, env, notifications, trs>>

\* insert of the uploaded_files row, status uploaded
Upload_InsertFile(u) ==
    /\ ups[u].pc = "insert_file"
    /\ \E dbOk \in BOOLEAN :
         IF dbOk
         THEN /\ uploaded_files' = uploaded_files \cup {FileRow(u, ups[u].file)}
              /\ ups' = [ups EXCEPT ![u] = [@ EXCEPT !.pc = "insert_transcript"]]
         ELSE /\ uploaded_files' = uploaded_files
              /\ ups' = [ups EXCEPT ![u] = Fail(@, "fileErr")]
    /\ UNCHANGED <<call, ret, tasks, routing_decisions, model_runs, reqs,
                   transcripts, storage, env, notifications, trs>>

\* insert of the transcripts row, status processing, referencing the file
Upload_InsertTranscript(u) ==
    /\ ups[u].pc = "insert_transcript"
    /\ \E dbOk \in BOOLEAN :
         IF dbOk
         THEN /\ transcripts' = transcripts \cup {TranscriptRow(u)}
              /\ ups' = [ups EXCEPT ![u] = [@ EXCEPT !.pc = "notify"]]
         ELSE /\ transcripts' = transcripts
              /\ ups' = [ups EXCEPT ![u] = Fail(@, "trErr")]
    /\ UNCHANGED <<call, ret, tasks, routing_decisions, model_runs, reqs,
                   uploaded_files, storage, env, notifications, trs>>

\* await fetch(webhook) when the url is set: a rejected fetch is thrown to the
\* catch block; then res.json({ file, transcript })
Upload_Notify(u) ==
    /\ ups[u].pc = "notify"
    /\ \E delivered \in BOOLEAN :
         LET ok == [status |-> 200, file |-> FileRow(u, ups[u].file),
                    transcript |-> TranscriptRow(u)]
         IN  IF ~env.N8N_FILE_WEBHOOK_URL
             THEN /\ notifications' = notifications
                  /\ ups' = [ups EXCEPT ![u] = [@ EXCEPT !.pc = "done", !.res = ok]]
             ELSE IF delivered
             THEN /\ notifications' = Append(notifications,
                        [fileId |-> FileUuid(u), transcriptId |-> TranscriptUuid(u)])
                  /\ ups' = [ups EXCEPT ![u] = [@ EXCEPT !.pc = "done", !.res = ok]]
             ELSE /\ notifications' = notifications
                  /\ ups' = [ups EXCEPT ![u] = Fail(@, "fetch failed")]
    /\ UNCHANGED <<call, ret, tasks, routing_decisions, model_runs, reqs,
                   uploaded_files, transcripts, storage, env, trs>>

----------------------------------------------------------------------------
(* server.ts: POST /api/transcribe-and-route *)

TriggerIds == 1 .. MaxTriggers

\* ids that name no row
AbsentFileId == "f-none"
AbsentTranscriptId == "t-none"

\* the request bodies: the pairs a notification carries, pairs of a file and
\* the transcript of another file, pairs that reference an absent file or an
\* absent transcript, and a body without fileId
TriggerBodies ==
    {[fileId |-> FileUuid(u), transcriptId |-> TranscriptUuid(v)] :
        u \in UploadIds, v \in UploadIds}
    \cup {[fileId |-> FileUuid(1), transcriptId |-> AbsentTranscriptId],
          [fileId |-> AbsentFileId, transcriptId |-> TranscriptUuid(1)],
          [fileId |-> NULL, transcriptId |-> TranscriptUuid(1)]}

\* the uuids of rows are random: a caller names a row only once it exists, or
\* makes up an id that names none
KnownToCaller(body) ==
    /\ body.fileId \in {f.id : f \in uploaded_files} \cup {AbsentFileId, NULL}
    /\ body.transcriptId \in {t.id : t \in transcripts} \cup {AbsentTranscriptId}

\* the task row of a transcribe-and-route request: its uuid follows those of
\* the create-task requests
TriggerTaskId(k) == MaxReq + k

\* !transcriptText || transcriptText.trim().length === 0
IsBlank(text) == text \in {"", "  "}

\* the template literal of the mock transcript
MockTranscript(fileRow) ==
    CASE fileRow.file_name = FileName(1) /\ fileRow.storage_path = StoragePath(1) ->
           "Mock transcript for call1.txt stored at raw/u1.txt.\nThis simulates a real transcript generated from the uploaded file."
      [] fileRow.file_name = FileName(2) /\ fileRow.storage_path = StoragePath(2) ->
           "Mock transcript for call2.txt stored at raw/u2.txt.\nThis simulates a real transcript generated from the uploaded file."
      [] OTHER ->
           "Mock transcript for call3.txt stored at raw/u3.txt.\nThis simulates a real transcript generated from the uploaded file."

\* the fixed task of a transcript: summary, high_quality, 100 cents
TriggerTaskBody(text, transcriptId) ==
    [taskType |-> "summary", sla |-> "high_quality", inputText |-> text,
     maxCostCents |-> 100, transcriptId |-> transcriptId]

\* tasks.transcript_id references transcripts(id)
TaskForeignKeyOk(row) ==
    row.transcript_id = NULL \/ \E t \in transcripts : t.id = row.transcript_id

NoRow == [none |-> TRUE]

IdleTrigger ==
    [pc |-> "idle", body |-> NoBody, fileRow |-> NoRow, text |-> NULL,
     routing |-> NoRouting, res |-> NoRes, dbErrors |-> {}]

\* the request arrives: 400 without both ids, else the select of the file row;
\* an error or no row is thrown to the catch block
TR_SelectFile(k) ==
    /\ trs[k].pc = "idle"
    /\ \A j \in 1 .. (k - 1) : trs[j].pc # "idle"
    /\ \E body \in TriggerBodies, dbOk \in BOOLEAN :
         LET rows == {f \in uploaded_files : f.id = body.fileId}
         IN  /\ KnownToCaller(body)
             /\ trs' = [trs EXCEPT ![k] =
                IF body.fileId = NULL \/ body.transcriptId = NULL
                THEN [@ EXCEPT !.pc = "done", !.body = body,
                        !.res = [status |-> 400, error |-> "fileId and transcriptId are required"]]
                ELSE IF dbOk /\ rows # {}
                THEN [@ EXCEPT !.pc = "download", !.body = body,
                        !.fileRow = CHOOSE f \in rows : TRUE]
                ELSE Fail([@ EXCEPT !.body = body], "File not found")]
    /\ UNCHANGED <<call, ret, tasks, routing_decisions, model_runs, reqs,
                   uploaded_files, transcripts, storage, env, notifications, ups>>

\* faulty variant: the test for blank text is missing
TR_Download_KeepsBlank(k) ==
    /\ trs[k].pc = "download"
    /\ \E ok \in BOOLEAN :
         LET objects == {o \in storage : o.path = trs[k].fileRow.storage_path}
         IN  trs' = [trs EXCEPT ![k] =
                IF ok /\ objects # {}
                THEN [@ EXCEPT !.pc = "update_transcript",
                        !.text = (CHOOSE o \in objects : TRUE).content]
                ELSE Fail(@, "Download failed")]
    /\ UNCHANGED <<call, ret, tasks, routing_decisions, model_runs, reqs,
                   uploaded_files, transcripts, storage, env, notifications, ups>>

\* download of the object and its text; blank text is replaced by the mock
TR_Download(k) ==
    /\ trs[k].pc = "download"
    /\ \E ok \in BOOLEAN :
         LET objects == {o \in storage : o.path = trs[k].fileRow.storage_path}
         IN  trs' = [trs EXCEPT ![k] =
                IF ok /\ objects # {}
                THEN LET transcriptText == (CHOOSE o \in objects : TRUE).content
                     IN  [@ EXCEPT !.pc = "update_transcript",
                            !.text = IF IsBlank(transcriptText)
                                     THEN MockTranscript(trs[k].fileRow)
                                     ELSE transcriptText]
                ELSE Fail(@, "Download failed")]
    /\ UNCHANGED <<call, ret, tasks, routing_decisions, model_runs, reqs,
                   uploaded_files, transcripts, storage, env, notifications, ups>>

\* update transcripts ... where id = transcriptId: an update that matches no
\* row is no error
TR_UpdateTranscript(k) ==
    /\ trs[k].pc = "update_transcript"
    /\ \E dbOk \in BOOLEAN :
         IF dbOk
         THEN /\ transcripts' =
                    {IF t.id = trs[k].body.transcriptId
                     THEN [t EXCEPT !.text = trs[k].text, !.language = "en",
                                    !.duration_seconds = "3600", !.status = "ready"]
                          \* duration_seconds: the numeral of 3600, its other value being NULL
                     ELSE t : t \in transcripts}
              /\ trs' = [trs EXCEPT ![k] = [@ EXCEPT !.pc = "insert_task"]]
         ELSE /\ transcripts' = transcripts
              /\ trs' = [trs EXCEPT ![k] = Fail(@, "Transcript update failed")]
    /\ UNCHANGED <<call, ret, tasks, routing_decisions, model_runs, reqs,
                   uploaded_files, storage, env, notifications, ups>>

\* insert of the task row of the transcript
TR_InsertTask(k) ==
    /\ trs[k].pc = "insert_task"
    /\ \E dbOk \in BOOLEAN :
         LET row == TaskRow(TriggerTaskId(k),
                            TriggerTaskBody(trs[k].text, trs[k].body.transcriptId))
         IN  IF dbOk /\ TaskRowAccepted(row) /\ TaskForeignKeyOk(row)
             THEN /\ tasks' = tasks \cup {row}
                  /\ trs' = [trs EXCEPT ![k] = [@ EXCEPT !.pc = "route"]]
             ELSE /\ tasks' = tasks
                  /\ trs' = [trs EXCEPT ![k] = Fail(@, "Task insert failed")]
    /\ UNCHANGED <<call, ret, routing_decisions, model_runs, reqs,
                   uploaded_files, transcripts, storage, env, notifications, ups>>

\* routeTask, then the insert of the decision row
TR_Route(k) ==
    /\ trs[k].pc = "route"
    /\ LET routing == routeTask([taskType |-> "summary", sla |-> "high_quality",
                                 maxCostCents |-> 100])
       IN  \E dbOk \in BOOLEAN :
             IF dbOk /\ DecisionRowAccepted(DecisionRow(TriggerTaskId(k), routing))
             THEN /\ routing_decisions' =
                        routing_decisions \cup {DecisionRow(TriggerTaskId(k), routing)}
                  /\ trs' = [trs EXCEPT ![k] = [@ EXCEPT !.pc = "run", !.routing = routing]]
             ELSE /\ routing_decisions' = routing_decisions
                  /\ trs' = [trs EXCEPT ![k] =
                               Fail([@ EXCEPT !.routing = routing], "Routing decision insert failed")]
    /\ UNCHANGED <<call, ret, tasks, model_runs, reqs, uploaded_files, transcripts, storage, env, notifications, ups>>

\* the simulated execution and the insert of its model_runs row; here a
\* database error is thrown
TR_InsertRun(k) ==
    /\ trs[k].pc = "run"
    /\ \E jitter \in Jitters, dbOk \in BOOLEAN :
         LET routing == trs[k].routing
             latency == routing.estimatedLatencyMs + jitter
         IN  IF dbOk
             THEN /\ model_runs' = model_runs \cup {RunRow(TriggerTaskId(k), routing, latency)}
                  /\ trs' = [trs EXCEPT ![k] = [@ EXCEPT !.pc = "mark_ready"]]
             ELSE /\ model_runs' = model_runs
                  /\ trs' = [trs EXCEPT ![k] = Fail(@, "Model run insert failed")]
    /\ UNCHANGED <<call, ret, tasks, routing_decisions, reqs, uploaded_files, transcripts, storage, env, notifications, ups>>

\* update uploaded_files set status = 'ready' where id = fileId: its result is
\* not looked at; then res.json({ status: 'ok', task, decision }). The task's
\* status is not written
TR_MarkReady(k) ==
    /\ trs[k].pc = "mark_ready"
    /\ \E dbOk \in BOOLEAN :
         /\ uploaded_files' =
              IF dbOk
              THEN {IF f.id = trs[k].body.fileId THEN [f EXCEPT !.status = "ready"] ELSE f :
                        f \in uploaded_files}
              ELSE uploaded_files
         /\ trs' = [trs EXCEPT ![k] = [@ EXCEPT !.pc = "done",
                      !.dbErrors = IF dbOk THEN @ ELSE @ \cup {"updateErr"},
                      !.res = [status   |-> 200,
                               task     |-> TaskRow(TriggerTaskId(k),
                                              TriggerTaskBody(trs[k].text, trs[k].body.transcriptId)),
                               decision |-> DecisionRow(TriggerTaskId(k), trs[k].routing)]]]
    /\ UNCHANGED <<call, ret, tasks, routing_decisions, model_runs, reqs,
                   transcripts, storage, env, notifications, ups>>

----------------------------------------------------------------------------
(* Specifications *)

EmptyTables ==
    /\ tasks = {}
    /\ routing_decisions = {}
    /\ model_runs = {}
    /\ reqs = [i \in ReqIds |-> IdleReq]
    /\ uploaded_files = {}
    /\ transcripts = {}
    /\ storage = {}
    /\ notifications = <<>>
    /\ ups = [u \in UploadIds |-> IdleUpload]
    /\ trs = [k \in TriggerIds |-> IdleTrigger]

\* direct calls of the decision function, its inputs drawn from RouteInputs
InitRoute ==
    /\ call \in RouteInputs
    /\ ret = NoRet
    /\ env = [N8N_FILE_WEBHOOK_URL |-> TRUE]
    /\ EmptyTables

NextRoute == Invoke \/ NextCall

SpecRoute == InitRoute /\ [][NextRoute]_vars

\* the server after start-up, serving create-task requests
Init ==
    /\ call = [taskType |-> "summary", sla |-> "low_cost", maxCostCents |-> 0]
    /\ ret = NoRet
    /\ env = [N8N_FILE_WEBHOOK_URL |-> TRUE]
    /\ EmptyTables

Next ==
    \E i \in ReqIds :
        \/ CreateTask_InsertTask(i)
        \/ CreateTask_Route(i)
        \/ CreateTask_InsertRun(i)
        \/ CreateTask_Complete(i)

Spec == Init /\ [][Next]_vars

\* the server after start-up, with or without the webhook url in its
\* environment, serving uploads and deliveries of the resume trigger
InitIngest ==
    /\ call = [taskType |-> "summary", sla |-> "low_cost", maxCostCents |-> 0]
    /\ ret = NoRet
    /\ env \in [N8N_FILE_WEBHOOK_URL : BOOLEAN]
    /\ EmptyTables

NextUpload ==
    \E u \in UploadIds :
        \/ Upload_Store(u)
        \/ Upload_InsertFile(u)
        \/ Upload_InsertTranscript(u)
        \/ Upload_Notify(u)

NextTrigger ==
    \E k \in TriggerIds :
        \/ TR_SelectFile(k)
        \/ TR_Download(k)
        \/ TR_UpdateTranscript(k)
        \/ TR_InsertTask(k)
        \/ TR_Route(k)
        \/ TR_InsertRun(k)
        \/ TR_MarkReady(k)

NextIngest == NextUpload \/ NextTrigger

SpecIngest == InitIngest /\ [][NextIngest]_vars

\* the three handlers side by side: one create-task request and one upload
\* next to the deliveries of the resume trigger
NextServer ==
    \/ CreateTask_InsertTask(1)
    \/ CreateTask_Route(1)
    \/ CreateTask_InsertRun(1)
    \/ CreateTask_Complete(1)
    \/ Upload_Store(1)
    \/ Upload_InsertFile(1)
    \/ Upload_InsertTranscript(1)
    \/ Upload_Notify(1)
    \/ NextTrigger

SpecServer == InitIngest /\ [][NextServer]_vars

----------------------------------------------------------------------------
(* The reference rule of the routing policy, stated apart from the code *)

Chain == <<"gpt_4_1", "gpt_4_1_mini", "rules_engine">>

Rank(m) == CHOOSE k \in 1 .. 3 : Chain[k] = m

RefCost == [gpt_4_1 |-> 40, gpt_4_1_mini |-> 10, rules_engine |-> 1]

RefPreferred(sla) ==
    CASE sla = "high_quality" -> "gpt_4_1"
      [] sla = "low_latency"  -> "gpt_4_1_mini"
      [] sla = "low_cost"     -> "rules_engine"

\* the first backend of the chain, from the preferred one downward, whose cost
\* fits the ceiling; the last backend of the chain when none fits
RefRule(sla, ceiling) ==
    LET fits == {k \in Rank(RefPreferred(sla)) .. 3 : RefCost[Chain[k]] <= ceiling}
    IN  IF fits = {} THEN Chain[3]
        ELSE Chain[CHOOSE k \in fits : \A l \in fits : k <= l]

\* reading a decimal numeral back
DigitValue(c) == CHOOSE d \in 0 .. 9 : DigitChar[d + 1] = c

RECURSIVE ParseDigits(_)
ParseDigits(s) ==
    IF Len(s) = 0 THEN 0
    ELSE ParseDigits(SubSeq(s, 1, Len(s) - 1)) * 10 + DigitValue(s[Len(s)])

ParseNumber(s) == IF s[1] = "-" THEN 0 - ParseDigits(Tail(s)) ELSE ParseDigits(s)

Returned == ret.kind = "return"

ValidSla == call.sla \in SlaTier

----------------------------------------------------------------------------
(* Claims about routeTask, under SpecRoute *)

\* C1: for every SLA tier and every integer ceiling, routeTask returns the
\* backend of the reference rule (first backend of the chain gpt_4_1 ->
\* gpt_4_1_mini -> rules_engine, at or below the preferred one, whose cost does
\* not exceed the ceiling); high_quality gives gpt_4_1 at 40, gpt_4_1_mini at
\* 39 and rules_engine at 0.
C1_RouteMatchesReferenceRule ==
    (Returned /\ ValidSla) =>
        /\ ret.value.model = RefRule(call.sla, call.maxCostCents)
        /\ call.sla = "high_quality" =>
             /\ call.maxCostCents = 40 => ret.value.model = "gpt_4_1"
             /\ call.maxCostCents = 39 => ret.value.model = "gpt_4_1_mini"
             /\ call.maxCostCents = 0 => ret.value.model = "rules_engine"

C1_Witness ==
    /\ Returned
    /\ call.sla = "high_quality"
    /\ call.maxCostCents = 39
    /\ ret.value.model = "gpt_4_1_mini"

\* C2: for all SLA tiers, task kinds and ceilings >= 1, the returned backend's
\* estimatedCostCents does not exceed the ceiling.
C2_CostWithinCeiling ==
    (Returned /\ ValidSla /\ call.maxCostCents >= 1) =>
        ret.value.estimatedCostCents <= call.maxCostCents

C2_Witness ==
    /\ Returned
    /\ call.sla = "high_quality"
    /\ call.maxCostCents = 5
    /\ ret.value.model = "rules_engine"
    /\ ret.value.estimatedCostCents = 1

\* C3: a ceiling of at least the preferred backend's cost yields the preferred
\* backend of the tier, and no ceiling yields a backend more capable than it.
C3_PreferredWhenAffordable ==
    (Returned /\ ValidSla) =>
        LET pref == RefPreferred(call.sla)
        IN  /\ call.maxCostCents >= RefCost[pref] => ret.value.model = pref
            /\ Rank(ret.value.model) >= Rank(pref)

C3_Witness ==
    /\ Returned
    /\ call.sla = "low_latency"
    /\ call.maxCostCents = 10
    /\ ret.value.model = "gpt_4_1_mini"

\* C4: for every valid SLA tier and every ceiling below 1 (zero and negative
\* included) the call raises no error and returns rules_engine with
\* estimatedCostCents 1.
C4_BelowMinimumGivesRulesEngine ==
    (ret # NoRet /\ ValidSla /\ call.maxCostCents < 1) =>
        /\ ret.kind = "return"
        /\ ret.value.model = "rules_engine"
        /\ ret.value.estimatedCostCents = 1

C4_Witness ==
    /\ Returned
    /\ call.sla = "high_quality"
    /\ call.maxCostCents = 0 - 1
    /\ ret.value.model = "rules_engine"

\* C5: a call with an SLA tier outside {low_latency, low_cost, high_quality}
\* fails with InvalidInput and returns no backend.
C5_UnknownSlaFailsInvalidInput ==
    (ret # NoRet /\ ~ValidSla) => ret.kind = "InvalidInput"

\* C7: the task kind does not influence the choice: for the same SLA tier and
\* ceiling every task kind gets the same model, estimated cost and estimated
\* latency; only the reason differs.
C7_TaskKindDoesNotInfluence ==
    Returned =>
        \A tk \in TaskType :
            LET other == routeTask([call EXCEPT !.taskType = tk])
            IN  /\ other.model = ret.value.model
                /\ other.estimatedCostCents = ret.value.estimatedCostCents
                /\ other.estimatedLatencyMs = ret.value.estimatedLatencyMs
                /\ tk # call.taskType => other.reason # ret.value.reason

C7_Witness ==
    /\ Returned
    /\ call.taskType = "classification"
    /\ call.sla = "high_quality"
    /\ call.maxCostCents = 40
    /\ ret.value.model = "gpt_4_1"

\* C8: the reason names the backend actually chosen (after fallback) and
\* contains the SLA tier, the task kind and the ceiling of the call unchanged.
C8_ReasonEchoesChoiceAndInputs ==
    Returned =>
        LET r == ret.value.reason
        IN  /\ Len(r) >= 9
            /\ r[1] = "Selected "
            /\ r[2] = ret.value.model
            /\ r[3] = " based on SLA="
            /\ r[4] = call.sla
            /\ r[5] = ", taskType="
            /\ r[6] = call.taskType
            /\ r[7] = ", maxCost="
            /\ ParseNumber(SubSeq(r, 8, Len(r) - 1)) = call.maxCostCents
            /\ r[Len(r)] = "c"

C8_Witness ==
    /\ Returned
    /\ call.sla = "high_quality"
    /\ call.taskType = "extraction"
    /\ call.maxCostCents = 0 - 12
    /\ ret.value.reason = <<"Selected ", "rules_engine", " based on SLA=", "high_quality",
                            ", taskType=", "extraction", ", maxCost=", "-", "1", "2", "c">>

\* C9: every routing decision carries a boolean overBudget field, true exactly
\* when the chosen backend's estimated cost exceeds the ceiling.
C9_DecisionCarriesOverBudget ==
    Returned =>
        /\ "overBudget" \in DOMAIN ret.value
        /\ ret.value.overBudget = (ret.value.estimatedCostCents > call.maxCostCents)

----------------------------------------------------------------------------
(* Claims about the create-task pipeline, under Spec *)

RouteArgs(b) == [taskType |-> b.taskType, sla |-> b.sla, maxCostCents |-> b.maxCostCents]

Routed(i) == reqs[i].routing # NoRouting

C10_CompletedHasDecisionAndRun ==
    \A t \in tasks :
        t.status = "completed" =>
            /\ Cardinality({d \in routing_decisions : d.task_id = t.id}) = 1
            /\ \E r \in model_runs : r.task_id = t.id /\ r.success
            /\ \A d \in routing_decisions, r \in model_runs :
                 (d.task_id = t.id /\ r.task_id = t.id /\ r.success) => d.chosen_model = r.model

----------------------------------------------------------------------------
(* Claims about the audit trail of a task *)

DecisionsOf(id) == {d \in routing_decisions : d.task_id = id}

RunsOf(id) == {r \in model_runs : r.task_id = id}

\* the request that created the task with this id has sent its response
RequestDone(id) ==
    IF id <= MaxReq THEN reqs[id].pc = "done" ELSE trs[id - MaxReq].pc = "done"

\* C11: once the request that created a task has finished, successfully or
\* with a failure at any persistence step, the task has exactly one routing
\* decision and one or more execution records.
C11_FinishedTaskHasDecisionAndRun ==
    \A t \in tasks :
        RequestDone(t.id) =>
            /\ Cardinality(DecisionsOf(t.id)) = 1
            /\ RunsOf(t.id) # {}

\* C12: the routing decision of a task is written once and strictly before any
\* execution record of the task: every new execution record belongs to a task
\* whose decision was already there, no task ever has two decisions, and a
\* written decision stays as it is.
C12_DecisionOnceBeforeRuns ==
    [][ /\ \A r \in model_runs' \ model_runs : DecisionsOf(r.task_id) # {}
        /\ \A r \in model_runs' : \E d \in routing_decisions' : d.task_id = r.task_id
        /\ \A d \in routing_decisions : d \in routing_decisions'
        /\ \A d \in routing_decisions', e \in routing_decisions' :
             d.task_id = e.task_id => d = e ]_vars

C12_Witness ==
    /\ RunsOf(1) # {} /\ DecisionsOf(1) # {}
    /\ RunsOf(TriggerTaskId(1)) # {} /\ DecisionsOf(TriggerTaskId(1)) # {}
    /\ \E k \in TriggerIds : trs[k].pc = "done" /\ "Routing decision insert failed" \in trs[k].dbErrors

StatusRank(status) ==
    CASE status = "pending"   -> 1
      [] status = "routed"    -> 2
      [] status = "running"   -> 3
      [] status = "completed" -> 4
      [] status = "failed"    -> 4

TerminalStatus == {"completed", "failed"}

\* C13: a task's status never regresses: it moves forward along pending,
\* routed, running, completed, or into failed from a non-terminal status, and a
\* completed or failed task keeps its status; no task row disappears.
C13_StatusNeverRegresses ==
    [][ \A t \in tasks :
          \E n \in tasks' :
            /\ n.id = t.id
            /\ \/ n.status = t.status
               \/ /\ t.status \notin TerminalStatus
                  /\ \/ n.status = "failed"
                     \/ StatusRank(n.status) > StatusRank(t.status) ]_vars

C13_Witness ==
    /\ \E t \in tasks : t.id = 1 /\ t.status = "completed"
    /\ \E t \in tasks : t.id = 2 /\ t.status = "pending"
    /\ reqs[2].pc = "update"

\* C14: every task that reaches completed has passed through pending, routed
\* and running in that order: it becomes completed from running only, and it is
\* routed, no longer pending, once its decision is persisted.
C14_CompletedViaRoutedAndRunning ==
    [][ \A t \in tasks, n \in tasks' :
          /\ (n.id = t.id /\ n.status = "completed" /\ t.status # "completed")
                => t.status = "running"
          /\ (n.id = t.id /\ DecisionsOf(t.id) # {}) => t.status # "pending" ]_vars

\* C15: every created task reaches a terminal status: once its request has
\* finished it is completed or failed, never still pending.
C15_FinishedRequestLeavesTaskTerminal ==
    \A t \in tasks : RequestDone(t.id) => t.status \in TerminalStatus

\* C16: of two or more route calls on the same task exactly one succeeds and
\* exactly one decision persists: the persistence layer refuses a further
\* decision row for a task that already has one.
C16_SecondDecisionRefused ==
    \A d \in routing_decisions :
        ~DecisionRowAccepted([d EXCEPT !.id = d.id + MaxReq + MaxTriggers])

\* C17: delivering the resume trigger more than once for the same (fileId,
\* transcriptId) does not reapply it: at most one such request succeeds and at
\* most one task, with one decision and one set of execution records, exists
\* for a transcript.
C17_DuplicateTriggerNotReapplied ==
    /\ \A t \in tasks, n \in tasks :
         (t.transcript_id # NULL /\ t.transcript_id = n.transcript_id) => t.id = n.id
    /\ \A j \in TriggerIds, k \in TriggerIds :
         (j # k /\ trs[j].pc = "done" /\ trs[k].pc = "done" /\ trs[j].body = trs[k].body
              /\ trs[j].res.status = 200) => trs[k].res.status # 200

\* C18: a failed execute attempt appends one execution record with success =
\* false and a failure reason (the only way the simulated attempt of the
\* create-task handler fails is the error of its model_runs insert).
C18_FailedExecuteLeavesFailureRecord ==
    \A i \in ReqIds :
        "runErr" \in reqs[i].dbErrors =>
            \E r \in RunsOf(i) : r.success = FALSE /\ r.failure_reason # NULL

\* taskType, sla, text and ceiling of a create-task body are all valid
ValidBody(b) ==
    /\ b.taskType \in TaskType
    /\ b.sla \in SlaTier
    /\ b.inputText # NULL
    /\ b.maxCostCents \in Nat

\* C19: a valid create-task request whose persistence writes all succeed ends
\* with the task completed, exactly one decision, that of the reference rule
\* with the catalog's cost, and exactly one successful execution record with
\* the chosen model and the estimated cost; (summary, low_cost, 5) gives
\* rules_engine at cost 1 and (high_quality, 10) gives gpt_4_1_mini.
C19_CreateTaskEndToEnd ==
    \A i \in ReqIds :
        (reqs[i].pc = "done" /\ reqs[i].dbErrors = {} /\ ValidBody(reqs[i].body)) =>
            LET b == reqs[i].body
                chosen == RefRule(b.sla, b.maxCostCents)
            IN  /\ reqs[i].res.status = 200
                /\ \E t \in tasks : t.id = i /\ t.status = "completed"
                /\ Cardinality(DecisionsOf(i)) = 1
                /\ \A d \in DecisionsOf(i) :
                     /\ d.chosen_model = chosen
                     /\ d.estimated_cost_cents = RefCost[chosen]
                     /\ d.chosen_model = reqs[i].res.routing.model
                     /\ d.reason = reqs[i].res.routing.reason
                /\ Cardinality(RunsOf(i)) = 1
                /\ \A r \in RunsOf(i) :
                     r.success /\ r.model = chosen /\ r.cost_cents = RefCost[chosen]
                /\ (b.sla = "low_cost" /\ b.maxCostCents = 5) =>
                     \A r \in RunsOf(i) : r.model = "rules_engine" /\ r.cost_cents = 1
                /\ (b.sla = "high_quality" /\ b.maxCostCents = 10) =>
                     \A d \in DecisionsOf(i) : d.chosen_model = "gpt_4_1_mini"

C19_Witness ==
    /\ reqs[1].pc = "done" /\ reqs[1].dbErrors = {}
    /\ reqs[1].body = Body("summary", "low_cost", "text", 5)
    /\ reqs[2].pc = "done" /\ reqs[2].dbErrors = {}
    /\ reqs[2].body = Body("summary", "high_quality", "text", 10)
    /\ \A t \in tasks : t.status = "completed"
    /\ Cardinality(model_runs) = 2

\* C20: a create-task request with an invalid task kind, an invalid SLA tier,
\* missing text or a ceiling that is no non-negative integer is rejected with
\* InvalidInput before any state change: no task, decision or execution record
\* is written for it.
C20_InvalidRequestRejectedUnwritten ==
    \A i \in ReqIds :
        (reqs[i].pc # "idle" /\ ~ValidBody(reqs[i].body)) =>
            /\ reqs[i].pc = "done"
            /\ reqs[i].res.status = 400
            /\ reqs[i].res.error = "InvalidInput"
            /\ \A t \in tasks : t.id # i
            /\ DecisionsOf(i) = {}
            /\ RunsOf(i) = {}

----------------------------------------------------------------------------
(* Further claims about routeTask, under SpecRoute *)

\* the catalog as the documentation lists it: cost in cents and latency in ms
RefLatency == [gpt_4_1 |-> 1800, gpt_4_1_mini |-> 600, rules_engine |-> 100]

\* C29: the estimatedCostCents and estimatedLatencyMs that routeTask returns
\* are the catalog profile of the returned model, never that of the preferred
\* model it fell back from: (40, 1800) for gpt_4_1, (10, 600) for gpt_4_1_mini,
\* (1, 100) for rules_engine.
C29_EstimatesAreProfileOfReturnedModel ==
    Returned =>
        /\ ret.value.model \in ModelName
        /\ ret.value.estimatedCostCents = RefCost[ret.value.model]
        /\ ret.value.estimatedLatencyMs = RefLatency[ret.value.model]

C29_Witness ==
    /\ Returned
    /\ call.sla = "high_quality"
    /\ call.maxCostCents = 9
    /\ ret.value.model = "rules_engine"
    /\ ret.value.estimatedCostCents = 1
    /\ ret.value.estimatedLatencyMs = 100

\* C30: for a fixed SLA tier the cost of the chosen backend is monotonically
\* non-decreasing in the ceiling, and so is its capability: a call with a
\* higher ceiling never gets a cheaper or less capable backend.
C30_CostMonotoneInCeiling ==
    Returned =>
        \A higher \in Ceilings :
            higher >= call.maxCostCents =>
                LET other == routeTask([call EXCEPT !.maxCostCents = higher])
                IN  /\ other.estimatedCostCents >= ret.value.estimatedCostCents
                    /\ Rank(other.model) <= Rank(ret.value.model)

C30_Witness ==
    /\ Returned
    /\ call.sla = "high_quality"
    /\ call.maxCostCents = 10
    /\ ret.value.model = "gpt_4_1_mini"
    /\ routeTask([call EXCEPT !.maxCostCents = 40]).model = "gpt_4_1"

----------------------------------------------------------------------------
(* Claims about failures of the handlers *)

\* the response of a finished request reports a failure to the caller
ErrorResponse(res) == res.status >= 500

\* C21: when a persistence write fails during task processing (task insert,
\* decision insert, execution-record insert or status update), the caller gets
\* an error and no success response, and the task is never completed after a
\* failed execution-record write.
C21_FailedWriteSurfacedNotCompleted ==
    \A i \in ReqIds :
        (reqs[i].pc = "done" /\ reqs[i].dbErrors # {}) =>
            /\ ErrorResponse(reqs[i].res)
            /\ "runErr" \in reqs[i].dbErrors =>
                 \A t \in tasks : t.id = i => t.status # "completed"

\* C22: if the outbound notification fails during upload, the ingestion still
\* succeeds: the uploaded-file and transcript rows stay persisted, the response
\* carries the created file and transcript and no error, and no task is marked
\* failed because of it.
C22_NotifyFailureDoesNotFailUpload ==
    \A u \in UploadIds :
        (ups[u].pc = "done" /\ "fetch failed" \in ups[u].dbErrors) =>
            /\ \E f \in uploaded_files : f.id = FileUuid(u)
            /\ \E t \in transcripts : t.id = TranscriptUuid(u)
            /\ \A t \in tasks : t.status # "failed"
            /\ ~ErrorResponse(ups[u].res)
            /\ {"file", "transcript"} \subseteq DOMAIN ups[u].res
            /\ "error" \notin DOMAIN ups[u].res

\* a NotFound error: the status of a missing resource, or a message saying so
IsNotFound(res) ==
    \/ res.status = 404
    \/ /\ "error" \in DOMAIN res
       /\ res.error \in {"NotFound", "File not found", "Transcript not found"}

\* the request names a file or a transcript that no upload ever creates
NamesAbsentRow(body) ==
    body.fileId = AbsentFileId \/ body.transcriptId = AbsentTranscriptId

\* the failures of the storage download and of the transcript update come
\* from the collaborator alone, whatever the request names
CollaboratorFailures == {"Download failed", "Transcript update failed"}

\* C23: a transcribe-and-route request that references an absent artifact or
\* an absent transcript fails with a NotFound error and changes no state: no
\* transcript is updated and no task, decision or execution record is created.
C23_AbsentReferenceNotFoundNoChange ==
    \A k \in TriggerIds :
        (trs[k].pc = "done" /\ NamesAbsentRow(trs[k].body)
             /\ trs[k].dbErrors \cap CollaboratorFailures = {}) =>
            /\ IsNotFound(trs[k].res)
            /\ \A t \in tasks : t.id # TriggerTaskId(k)
            /\ DecisionsOf(TriggerTaskId(k)) = {}
            /\ RunsOf(TriggerTaskId(k)) = {}

\* C24: every failure other than a notification failure leaves an
\* error_message on the owning entity: no failed request leaves the task, the
\* transcript or the uploaded file it was working on without one.
C24_FailureLeavesErrorMessage ==
    /\ \A i \in ReqIds :
         (reqs[i].pc = "done" /\ ErrorResponse(reqs[i].res)) =>
             \A t \in tasks : t.id = i => t.error_message # NULL
    /\ \A u \in UploadIds :
         (ups[u].pc = "done" /\ ErrorResponse(ups[u].res)
              /\ "fetch failed" \notin ups[u].dbErrors) =>
             \A f \in uploaded_files : f.id = FileUuid(u) => f.error_message # NULL
    /\ \A k \in TriggerIds :
         (trs[k].pc = "done" /\ ErrorResponse(trs[k].res)) =>
             /\ \A t \in tasks : t.id = TriggerTaskId(k) => t.error_message # NULL
             /\ \A f \in uploaded_files, t \in transcripts :
                  (f.id = trs[k].body.fileId /\ t.id = trs[k].body.transcriptId) =>
                      (f.error_message # NULL \/ t.error_message # NULL)

----------------------------------------------------------------------------
(* Claims about ingestion: upload, then transcribe-and-route *)

\* C25: a transcript is created without text in status processing and is
\* filled exactly once: once it is ready, no later operation (a repeated
\* transcribe-and-route call for the same transcriptId included) writes its
\* text, language, duration or status again.
C25_TranscriptFilledOnce ==
    [][ /\ \A n \in transcripts' :
             (\A t \in transcripts : t.id # n.id) =>
                 (n.text = NULL /\ n.status = "processing")
        /\ \A k \in TriggerIds :
             (trs[k].pc = "update_transcript" /\ trs'[k].pc = "insert_task") =>
                 \A t \in transcripts :
                     t.id = trs[k].body.transcriptId => t.status # "ready" ]_vars

UploadSucceeded(u) == ups[u].pc = "done" /\ ups[u].res.status = 200

\* the notifications sent for upload u, by their position in the order sent
NotificationsOf(u) ==
    {j \in DOMAIN notifications :
        notifications[j] = [fileId |-> FileUuid(u), transcriptId |-> TranscriptUuid(u)]}

\* the rows of a successful upload, the order of the writes, and what a failed
\* storage upload leaves behind
UploadRowsAndOrder ==
    /\ \A u \in UploadIds :
         UploadSucceeded(u) =>
            /\ ups[u].res.file.status = "uploaded"
            /\ ups[u].res.transcript.status = "processing"
            /\ ups[u].res.transcript.file_id = ups[u].res.file.id
            /\ \E f \in uploaded_files : f.id = ups[u].res.file.id
            /\ \E t \in transcripts :
                 t.id = ups[u].res.transcript.id /\ t.file_id = ups[u].res.file.id
    /\ \A t \in transcripts : \E f \in uploaded_files : f.id = t.file_id
    /\ \A j \in DOMAIN notifications :
         /\ \E f \in uploaded_files : f.id = notifications[j].fileId
         /\ \E t \in transcripts :
              t.id = notifications[j].transcriptId /\ t.file_id = notifications[j].fileId
    /\ \A u \in UploadIds :
         /\ Cardinality(NotificationsOf(u)) <= 1
         /\ "storageErr" \in ups[u].dbErrors =>
              /\ \A f \in uploaded_files : f.id # FileUuid(u)
              /\ \A t \in transcripts : t.id # TranscriptUuid(u)
              /\ NotificationsOf(u) = {}

\* C26 as stated: a successful upload creates the uploaded-file row in status
\* uploaded and then the transcript row in status processing referencing it,
\* and emits exactly one notification carrying both identifiers, sent only
\* after both rows exist; if storing the bytes fails, no row is created and no
\* notification is sent.
C26_UploadEmitsExactlyOneNotification ==
    /\ UploadRowsAndOrder
    /\ \A u \in UploadIds : UploadSucceeded(u) => Cardinality(NotificationsOf(u)) = 1

\* C26, amended: as above, but the successful upload emits exactly one
\* notification when N8N_FILE_WEBHOOK_URL is set, and none when it is not.
C26_UploadEmitsOneNotificationWhenConfigured ==
    /\ UploadRowsAndOrder
    /\ \A u \in UploadIds :
         UploadSucceeded(u) =>
            Cardinality(NotificationsOf(u)) = IF env.N8N_FILE_WEBHOOK_URL THEN 1 ELSE 0

C26_Witness ==
    /\ env.N8N_FILE_WEBHOOK_URL
    /\ UploadSucceeded(1)
    /\ notifications = <<[fileId |-> FileUuid(1), transcriptId |-> TranscriptUuid(1)]>>
    /\ \E f \in uploaded_files : f.id = FileUuid(1)
    /\ \E t \in transcripts : t.id = TranscriptUuid(1) /\ t.file_id = FileUuid(1)

\* the request went through its execution step and the insert of the record
\* was accepted
RanCreateTask(i) ==
    /\ reqs[i].pc = "update" \/ (reqs[i].pc = "done" /\ reqs[i].res.status = 200)
    /\ "runErr" \notin reqs[i].dbErrors

RanTrigger(k) ==
    trs[k].pc = "mark_ready" \/ (trs[k].pc = "done" /\ trs[k].res.status = 200)

PlaceholderMarker == "Mock transcript for "

StartsWith(text, prefix) ==
    Len(text) >= Len(prefix) /\ SubSeq(text, 1, Len(prefix)) = prefix

\* the text is empty or made of white space only
AllWhitespace(text) ==
    \A j \in 1 .. Len(text) : SubSeq(text, j, j) \in {" ", "\t", "\n", "\r"}

\* the bytes stored for the file that request k works on
ContentOf(k) ==
    (CHOOSE o \in storage : o.path = trs[k].fileRow.storage_path).content

\* the request has its text: it is past the download
HasText(k) == trs[k].text # NULL

\* C28: when the extracted text is empty or only white space,
\* transcribe-and-route does not fail on that account: it stores a placeholder
\* text that opens with a marker no real content of the model carries, and goes
\* on to create and route the task; a non-empty text is stored unchanged.
C28_BlankTextGetsMarkedPlaceholder ==
    /\ \A t \in transcripts :
         t.status = "ready" =>
             \E k \in TriggerIds :
                 HasText(k) /\ trs[k].body.transcriptId = t.id /\ t.text = trs[k].text
    /\ \A k \in TriggerIds :
        HasText(k) =>
            /\ AllWhitespace(ContentOf(k)) =>
                 /\ StartsWith(trs[k].text, PlaceholderMarker)
                 /\ ~AllWhitespace(trs[k].text)
            /\ ~AllWhitespace(ContentOf(k)) =>
                 /\ trs[k].text = ContentOf(k)
                 /\ ~StartsWith(trs[k].text, PlaceholderMarker)
            /\ (trs[k].pc = "done" /\ trs[k].res.status = 200) =>
                 /\ \E t \in tasks :
                      t.id = TriggerTaskId(k) /\ t.input_text = trs[k].text
                 /\ DecisionsOf(TriggerTaskId(k)) # {}
                 /\ trs[k].res.task.input_text = trs[k].text
            /\ trs[k].pc = "done" =>
                 trs[k].dbErrors \subseteq
                     {"Transcript update failed", "Task insert failed",
                      "Routing decision insert failed", "Model run insert failed",
                      "updateErr"}

C28_Witness ==
    \E k \in TriggerIds :
        /\ trs[k].pc = "done" /\ trs[k].res.status = 200
        /\ AllWhitespace(ContentOf(k)) /\ ContentOf(k) # ""
        /\ StartsWith(trs[k].text, PlaceholderMarker)
        /\ \E t \in transcripts : t.text = trs[k].text /\ t.status = "ready"
        /\ \E t \in tasks : t.id = TriggerTaskId(k) /\ t.input_text = trs[k].text
        /\ DecisionsOf(TriggerTaskId(k)) # {}

\* the task is routed and has run: it has a decision and a successful record
RoutedAndRun(id) ==
    /\ DecisionsOf(id) # {}
    /\ \E r \in RunsOf(id) : r.success

\* a transcribe-and-route request for this file went through all its writes
ProcessedBy(k, fileId) ==
    /\ trs[k].pc = "done"
    /\ trs[k].res.status = 200
    /\ trs[k].body.fileId = fileId

\* C31: in every reachable state, an uploaded file with status ready has a
\* transcript of its own in status ready and a task referencing that transcript
\* with a routing decision and a successful execution record; a file is ready
\* only through a transcribe-and-route request that made all these writes, so
\* a failure at an earlier step leaves the file in status uploaded.
C31_ReadyFileHasReadyTranscriptAndRoutedTask ==
    \A f \in uploaded_files :
        f.status = "ready" =>
            /\ \E k \in TriggerIds : ProcessedBy(k, f.id)
            /\ \E t \in transcripts :
                 /\ t.file_id = f.id
                 /\ t.status = "ready"
                 /\ \E task \in tasks : task.transcript_id = t.id /\ RoutedAndRun(task.id)

============================================================================
